---- MODULE Spec2Model ----
(***************************************************************************)
(* RecruitFlow: the mail ingestion pipeline.                               *)
(*                                                                         *)
(* check_email_task (main/tasks.py) walks the users that have a Gmail      *)
(* password, fetches their last messages, filters them through the Redis   *)
(* set "processed_emails" and the resume classifier, and then hands the    *)
(* accepted messages to CandidateOperations.create_candidate_from_email    *)
(* (main/repository/candidate.py), which extracts the candidate, scores    *)
(* the user's positions and creates a Candidate for the first relevant one.*)
(*                                                                         *)
(* Every firing of the beat schedule is one run r \in Runs; task[r] holds  *)
(* the local variables of that run and its position in the code.           *)
(*                                                                         *)
(* Spec and SpecOverlap are the runs of the task, one after the other and  *)
(* overlapping.  SpecIntake adds the upload of one resume on the page of a *)
(* position (create_candidate_from_single_document).  SpecServices calls   *)
(* DocumentReader.read_document and the attachment loop of                 *)
(* MailService.get_last_messages on their own, for any file and any list   *)
(* of attachments.  SpecViews sends requests to the views of the recruiter *)
(* (main/views.py) on a table of uploaded candidates, and SpecScheduling   *)
(* sends schedule_interviews alone, for any calendar.                      *)
(***************************************************************************)
EXTENDS Integers, Sequences, FiniteSets, TLC

(***************************************************************************)
(* Bounds of the model.                                                    *)
(***************************************************************************)
\* number of firings of the beat schedule that are explored
MaxRuns == 2

Runs == 1..MaxRuns

NULL == "None"

(***************************************************************************)
(* Text.  A text is a sequence of one-character strings, so that           *)
(* str.strip() is computed, not assumed.                                   *)
(***************************************************************************)
Whitespace == {" ", "\t", "\n"}

RECURSIVE LStrip(_)
LStrip(s) ==
    IF s = << >> THEN << >>
    ELSE IF Head(s) \in Whitespace THEN LStrip(Tail(s))
    ELSE s

RECURSIVE RStrip(_)
RStrip(s) ==
    IF s = << >> THEN << >>
    ELSE IF s[Len(s)] \in Whitespace THEN RStrip(SubSeq(s, 1, Len(s) - 1))
    ELSE s

\* str.strip()
Strip(s) == RStrip(LStrip(s))

\* str.replace('\n', ', '): every line break becomes a comma and a space;
\* the text is halved so that long texts need few nested evaluations
RECURSIVE ReplaceNewlines(_)
ReplaceNewlines(s) ==
    IF s = << >> THEN << >>
    ELSE IF Len(s) = 1 THEN (IF s[1] = "\n" THEN <<",", " ">> ELSE s)
    ELSE ReplaceNewlines(SubSeq(s, 1, Len(s) \div 2))
         \o ReplaceNewlines(SubSeq(s, Len(s) \div 2 + 1, Len(s)))

\* s[:n]
Slice(s, n) == SubSeq(s, 1, IF Len(s) < n THEN Len(s) ELSE n)

\* the text of n characters c
Repeat(c, n) == [i \in 1..n |-> c]

\* the characters of s as one string
RECURSIVE Concat(_)
Concat(s) == IF s = << >> THEN "" ELSE Head(s) \o Concat(Tail(s))

(***************************************************************************)
(* The database rows the pipeline reads.                                   *)
(***************************************************************************)
\* CustomUser rows: id |-> gmail_password
gmail_password == [u \in {1, 2, 3} |-> CASE u = 1 -> "pw1" [] u = 2 -> "pw2" [] OTHER -> ""]

AllUsers == DOMAIN gmail_password

\* ProjectUser rows (project, user); unique_together = (project, user)
ProjectUser == { <<1, 1>>, <<2, 1>>, <<2, 2>>, <<3, 3>> }

\* Position.project: position id |-> project id
PositionProject == [p \in {1, 2, 3} |-> p]

PositionIds == DOMAIN PositionProject

\* Position.requirements is a TextField(blank=True): any text, the empty one included
RequirementTexts == { << >>, <<" ", "\n">>, <<"p", "y">>, <<" ", "g", "o">> }

\* the Position tables the runs are explored with: id of an existing position |->
\* its requirements.  Position 2 is shared by users 1 and 2, position 3 belongs to a
\* project of user 3 only; without position 2, user 2 has no position at all.
PositionTables ==
    { t \in [PositionIds -> RequirementTexts] :
        /\ t[1] \in { <<"p", "y">>, <<" ", "\n">> }
        /\ t[2] \in { << >>, <<" ", "g", "o">> }
        /\ t[3] = << >> }
    \cup
    { t \in [PositionIds \ {2} -> RequirementTexts] :
        /\ t[1] = <<"p", "y">>
        /\ t[3] = << >> }

(***************************************************************************)
(* The mailboxes.  A message is named by a number; Message gives the       *)
(* fields get_last_messages puts into msg_data.                            *)
(***************************************************************************)
Message ==
    [m \in {1, 2, 3} |->
        CASE m = 1 -> [from |-> "ann@x", date |-> "d1", file_content |-> "cv",
                       file_name |-> "cv.pdf", file_payload |-> "bytes"]
          [] m = 2 -> [from |-> "bob@x", date |-> "d2", file_content |-> "",
                       file_name |-> NULL, file_payload |-> NULL]
          [] OTHER -> [from |-> "ann@x", date |-> "d1", file_content |-> "cv",
                       file_name |-> "cv.pdf", file_payload |-> "bytes"]]

MessageIds == DOMAIN Message

\* what mailbox.fetch(reverse=True) yields for each address, newest first:
\* messages 1 and 3, in two mailboxes, have the same sender and date
Mailboxes ==
    { [u \in AllUsers |-> CASE u = 1 -> <<1>> [] u = 2 -> <<3, 2>> [] OTHER -> << >>] }

\* the mailboxes and the Position table that overlapping runs are explored with
OverlapMailboxes ==
    { [u \in AllUsers |-> CASE u = 1 -> <<1>> [] u = 2 -> <<3>> [] OTHER -> << >>] }

OverlapPositionTables ==
    { t \in PositionTables : DOMAIN t = PositionIds /\ t[1] = <<"p", "y">> /\ t[2] = << >> }

\* mutant: the key tells the messages apart
MessageKeyPerMessage(m) ==
    Message[m].from \o "_" \o Message[m].date
        \o (IF m = 1 THEN "_1" ELSE IF m = 2 THEN "_2" ELSE "_3")

\* tasks.py:61  message_id = f"{message['from']}_{str(message['date'])}"
MessageKey(m) == Message[m].from \o "_" \o Message[m].date

Keys == { MessageKey(m) : m \in MessageIds }

(***************************************************************************)
(* GeminiService (main/services/llm_service.py).  The answer of the model  *)
(* is an input of each operation:                                          *)
(*   "1", "0"   response.parsed holds the flag                             *)
(*   "empty"    response.parsed is empty                                   *)
(*   "invalid"  pydantic.ValidationError is raised                         *)
(*   "error"    generate_content raises another exception                  *)
(***************************************************************************)
FlagAnswers == {"1", "0", "empty", "invalid", "error"}

\* llm_service.py:122-149
is_resume(answer) ==
    IF answer \in {"invalid", "error"} THEN FALSE
    ELSE IF answer # "empty" THEN answer = "1"
    ELSE FALSE

\* the records response.parsed may hold for CandidateInfoFromResume
\* (telegram: Optional[str], default None; the language fields: str, one
\* language per line).  The second record has a text of 150 characters with the
\* line break at the 100th and one of 300 characters with the line break at
\* the 255th.
ParsedCandidates ==
    { [full_name |-> "Ann", email |-> NULL, telegram |-> NULL,
       programming_languages |-> <<"p", "y", "\n", "g", "o">>,
       spoken_languages |-> <<"p", "y", "\n", "g", "o">>],
      [full_name |-> "Ann", email |-> "ann@mail", telegram |-> "@ann",
       programming_languages |-> Repeat("a", 99) \o <<"\n">> \o Repeat("b", 50),
       spoken_languages |-> Repeat("a", 254) \o <<"\n">> \o Repeat("b", 45)] }

\* the keys of model_dump() that are followed
DumpedFields ==
    {"full_name", "email", "telegram", "programming_languages", "spoken_languages"}

\* "parsed": response.parsed holds a record; the others as for the flags
ExtractAnswers == {"parsed", "empty", "invalid", "error"}

\* a Python dict is a function; {} is the function with the empty domain
EmptyDict == [k \in {} |-> NULL]

\* dict.get(key, default)
DictGet(d, key, default) == IF key \in DOMAIN d THEN d[key] ELSE default

\* mutant: a record that fails validation is passed on as it came
get_candidate_info_unvalidated(answer, parsed) ==
    IF answer = "error" THEN EmptyDict
    ELSE IF answer # "empty" THEN [k \in DumpedFields |-> parsed[k]]
    ELSE EmptyDict

\* llm_service.py:198-225: model_dump() of the parsed record, {} otherwise
get_candidate_info_from_resume(answer, parsed) ==
    IF answer \in {"invalid", "error"} THEN EmptyDict
    ELSE IF answer # "empty" THEN [k \in DumpedFields |-> parsed[k]]
    ELSE EmptyDict

\* the order of the fields in model_dump()
InfoFields == <<"full_name", "telegram">>

\* candidate.py:58  "\n".join([f"{k}: {v}" for k, v in candidate_info.items()])
\* as the sequence of its lines
RECURSIVE InfoLines(_, _)
InfoLines(d, fields) ==
    IF fields = << >> THEN << >>
    ELSE IF Head(fields) \in DOMAIN d
         THEN << Head(fields) \o ": " \o d[Head(fields)] >> \o InfoLines(d, Tail(fields))
         ELSE InfoLines(d, Tail(fields))

candidate_info_str(d) == InfoLines(d, InfoFields)

\* mutant: only the empty text is taken for "no requirements"
RequirementsBlankWithoutStrip(position_requirements) == position_requirements = << >>

\* llm_service.py:250  not position_requirements or not position_requirements.strip()
RequirementsBlank(position_requirements) ==
    position_requirements = << >> \/ Strip(position_requirements) = << >>

\* mutant: a failed call counts as a match
is_candidate_relevant_fail_open(candidate_info, position_requirements, answer) ==
    IF position_requirements = << >> \/ Strip(position_requirements) = << >>
    THEN [result |-> TRUE, invoked |-> FALSE]
    ELSE IF answer \in {"invalid", "error", "empty"} THEN [result |-> TRUE, invoked |-> TRUE]
    ELSE [result |-> answer = "1", invoked |-> TRUE]

\* llm_service.py:250-298.  invoked: whether generate_content was called
is_candidate_relevant_for_position(candidate_info, position_requirements, answer) ==
    IF RequirementsBlank(position_requirements)
    THEN [result |-> TRUE, invoked |-> FALSE]
    ELSE IF answer \in {"invalid", "error"} THEN [result |-> FALSE, invoked |-> TRUE]
    ELSE IF answer # "empty" THEN [result |-> answer = "1", invoked |-> TRUE]
    ELSE [result |-> FALSE, invoked |-> TRUE]

(***************************************************************************)
(* DocumentReader (main/services/doc_reader_service.py).  A file name is a *)
(* sequence of characters; the bytes of a file are named by a string, and  *)
(* PdfReader and Document say what pypdf and python-docx make of them.     *)
(***************************************************************************)
\* str.lower() on the letters the file names are written with
LowerChar(c) ==
    CASE c = "C" -> "c" [] c = "D" -> "d" [] c = "F" -> "f" [] c = "O" -> "o"
      [] c = "P" -> "p" [] c = "V" -> "v" [] c = "X" -> "x" [] OTHER -> c

lower(s) == [i \in DOMAIN s |-> LowerChar(s[i])]

\* str.endswith(suffix)
endswith(s, suffix) ==
    /\ Len(s) >= Len(suffix)
    /\ SubSeq(s, Len(s) - Len(suffix) + 1, Len(s)) = suffix

\* the names of attachments and of uploaded files
FileNames ==
    { << >>,
      <<"c", "v">>,
      <<"p", "d", "f">>,
      <<".", "p", "d", "f">>,
      <<"c", "v", ".", "p", "d", "f">>,
      <<"C", "V", ".", "P", "D", "F">>,
      <<"c", "v", ".", "d", "o", "c">>,
      <<"c", "v", ".", "d", "o", "c", "x">>,
      <<"c", "v", ".", "D", "o", "c", "X">>,
      <<"c", "v", ".", "p", "d", "f", ".", "t", "x", "t">> }

\* the payloads: empty, not a document, a PDF with a page of text and a page
\* that is an image, a scanned PDF, a PDF whose second page cannot be read, a
\* DOCX with three paragraphs, a DOCX without paragraphs
Payloads ==
    { "", "junk", "%PDF Ann", "%PDF scan", "%PDF broken page", "PK Ann", "PK blank" }

\* PdfReader(io.BytesIO(payload)): raises, or gives the pages; a page gives the
\* text of page.extract_text() (empty for None and for "") or raises
PdfReader(payload) ==
    CASE payload = "%PDF Ann" ->
            [raises |-> FALSE,
             pages |-> << [raises |-> FALSE, text |-> <<"A", "n", "n">>],
                          [raises |-> FALSE, text |-> << >>] >>]
      [] payload = "%PDF scan" ->
            [raises |-> FALSE, pages |-> << [raises |-> FALSE, text |-> << >>] >>]
      [] payload = "%PDF broken page" ->
            [raises |-> FALSE,
             pages |-> << [raises |-> FALSE, text |-> <<"A", "n", "n">>],
                          [raises |-> TRUE, text |-> << >>] >>]
      [] OTHER -> [raises |-> TRUE, pages |-> << >>]

\* Document(io.BytesIO(payload)): raises, or gives para.text of the paragraphs
Document(payload) ==
    CASE payload = "PK Ann" ->
            [raises |-> FALSE,
             paragraphs |-> << <<" ", "A", "n", "n", " ">>, << >>, <<"p", "y">> >>]
      [] payload = "PK blank" -> [raises |-> FALSE, paragraphs |-> << >>]
      [] OTHER -> [raises |-> TRUE, paragraphs |-> << >>]

\* doc_reader_service.py:88-92  the loop over reader.pages; an exception ends it
\* and leaves text as it is
RECURSIVE PagesText(_)
PagesText(pages) ==
    IF pages = << >> THEN << >>
    ELSE IF Head(pages).raises THEN << >>
    ELSE IF Head(pages).text # << >>
         THEN Head(pages).text \o <<"\n">> \o PagesText(Tail(pages))
    ELSE PagesText(Tail(pages))

\* doc_reader_service.py:82-97
read_pdf_from_bytes(payload) ==
    IF PdfReader(payload).raises THEN << >> ELSE PagesText(PdfReader(payload).pages)

\* str.join
RECURSIVE Join(_, _)
Join(sep, parts) ==
    IF parts = << >> THEN << >>
    ELSE IF Len(parts) = 1 THEN Head(parts)
    ELSE Head(parts) \o sep \o Join(sep, Tail(parts))

\* doc_reader_service.py:119-132
read_docx_from_bytes(payload) ==
    IF Document(payload).raises THEN << >>
    ELSE LET kept == SelectSeq(Document(payload).paragraphs,
                               LAMBDA para : para # << >>)
         IN  Join(<<"\n">>, [i \in DOMAIN kept |-> Strip(kept[i])])

\* doc_reader_service.py:55,57  the words before the file name ("name of the
\* document: ", in Russian), as one element of the text
DocumentTitle == <<"Nazvanie dokumenta: ">>

\* doc_reader_service.py:51-60
read_document(filename, payload) ==
    LET name == lower(filename) IN
    IF endswith(name, <<".", "p", "d", "f">>)
    THEN DocumentTitle \o name \o <<"\n">> \o read_pdf_from_bytes(payload)
    ELSE IF endswith(name, <<".", "d", "o", "c", "x">>)
    THEN DocumentTitle \o name \o <<"\n">> \o read_docx_from_bytes(payload)
    ELSE << >>

\* the reader of the file raised inside _read_pdf_from_bytes or
\* _read_docx_from_bytes, at the opening or at a page
ExtractionFails(filename, payload) ==
    \/ /\ endswith(lower(filename), <<".", "p", "d", "f">>)
       /\ \/ PdfReader(payload).raises
          \/ \E i \in DOMAIN PdfReader(payload).pages : PdfReader(payload).pages[i].raises
    \/ /\ ~endswith(lower(filename), <<".", "p", "d", "f">>)
       /\ endswith(lower(filename), <<".", "d", "o", "c", "x">>)
       /\ Document(payload).raises

(***************************************************************************)
(* MailService.get_last_messages: the attachment fields of msg_data.       *)
(* None is the empty set and a value v is {v}.                             *)
(***************************************************************************)
\* number of attachments of a message that are explored
MaxAttachments == 3

\* message.attachments: att.filename and att.payload
Attachments ==
    { [filename |-> <<"c", "v", ".", "d", "o", "c">>, payload |-> "PK Ann"],
      [filename |-> <<"c", "v", ".", "d", "o", "c">>, payload |-> "junk"],
      [filename |-> <<"c", "v", ".", "p", "d", "f">>, payload |-> "junk"],
      [filename |-> <<"C", "V", ".", "P", "D", "F">>, payload |-> "%PDF Ann"],
      [filename |-> <<"c", "v", ".", "d", "o", "c", "x">>, payload |-> "PK Ann"] }

AttachmentLists == UNION { [1..n -> Attachments] : n \in 0..MaxAttachments }

\* mutant: the loop has no break; every attachment is read and the last one
\* that yields text gives the name and the payload
RECURSIVE ReadAttachmentsNoBreak(_, _)
ReadAttachmentsNoBreak(attachments, i) ==
    IF i > Len(attachments)
    THEN [file_content |-> << >>, file_name |-> {}, file_payload |-> {}, read |-> << >>]
    ELSE LET att == attachments[i]
             extracted_text == read_document(att.filename, att.payload)
             rest == ReadAttachmentsNoBreak(attachments, i + 1)
         IN  IF extracted_text # << >> /\ rest.file_name = {}
             THEN [file_content |-> extracted_text, file_name |-> {att.filename},
                   file_payload |-> {att.payload}, read |-> <<i>> \o rest.read]
             ELSE [rest EXCEPT !.file_content = extracted_text \o @,
                               !.read = <<i>> \o @]

\* mail_service.py:62-75  "for att in message.attachments", from the i-th
\* attachment on; read lists the attachments given to read_document
RECURSIVE ReadAttachments(_, _)
ReadAttachments(attachments, i) ==
    IF i > Len(attachments)
    THEN [file_content |-> << >>, file_name |-> {}, file_payload |-> {}, read |-> << >>]
    ELSE LET att == attachments[i]
             extracted_text == read_document(att.filename, att.payload)
         IN  IF extracted_text # << >>
             THEN [file_content |-> extracted_text, file_name |-> {att.filename},
                   file_payload |-> {att.payload}, read |-> <<i>>]
             ELSE LET rest == ReadAttachments(attachments, i + 1)
                  IN  [rest EXCEPT !.read = <<i>> \o @]

(***************************************************************************)
(* State.                                                                  *)
(***************************************************************************)
VARIABLES
    position_table,   \* the Position rows: id |-> requirements
    Mailbox,          \* the messages on the mail server: user |-> newest first
    ledger,           \* the Redis set "processed_emails"
    candidates,       \* the Candidate rows, in the order of their creation
    task,             \* task[r]: the locals and the program counter of run r
    origin,           \* history: origin[i] = run, user and message of candidates[i]
    is_resume_calls,  \* history: key |-> number of is_resume calls for it
    extract_calls,    \* history: key |-> number of get_candidate_info_from_resume calls
    event,            \* history: the call made by the last step
    sessions,         \* the BotInterviewSession rows, in the order of their creation
    calendar,         \* the recruiter's Google calendar: day |-> free slots
    threads,          \* candidate id |-> the transcription thread started for it
    txns,             \* request |-> the open transaction of schedule_bot_interview
    served            \* number of requests the views were sent

\* the state of the views (main/views.py)
webVars == << sessions, calendar, threads, txns, served >>

vars == << position_table, Mailbox, ledger, candidates, task, origin, is_resume_calls,
           extract_calls, event, webVars >>

\* no request was sent to the views
NoRequests ==
    /\ sessions = {}
    /\ calendar = << >>
    /\ threads = << >>
    /\ txns = << >>
    /\ served = 0

\* tasks.py:49  users with gmail_password neither NULL nor ''
users ==
    SelectSeq([i \in 1..Cardinality(AllUsers) |-> i],
              LAMBDA u : gmail_password[u] \notin {NULL, ""})

\* the sequences that enumerate the set S once each
Enumerations(S) ==
    { q \in [1..Cardinality(S) -> S] : \A i, j \in DOMAIN q : q[i] = q[j] => i = j }

\* mutant: the positions are not filtered by the memberships of the user
PositionsOfAnyUser(user_id) == DOMAIN position_table

\* candidate.py:60  Position.objects.filter(project__users__id=user_id).distinct()
PositionsOf(user_id) ==
    { p \in DOMAIN position_table : <<PositionProject[p], user_id>> \in ProjectUser }

\* mutant: a failure of the connection is not noticed and every message comes back
get_last_messages_all(user, fail_at) == Mailbox[user]

\* mail_service.py:57-93: processed_messages holds the messages appended before
\* the connection failed or the iteration ended (fail_at of them); the except
\* clause logs and falls through to "return processed_messages"
get_last_messages(user, fail_at) == SubSeq(Mailbox[user], 1, fail_at)

\* mutant: the membership check never finds the key
sismember_never(processed_emails, message_id) == FALSE

\* tasks.py:64  redis_service.sismember("processed_emails", message_id)
sismember(processed_emails, message_id) == message_id \in processed_emails

\* mutant: the key is not written
sadd_forgotten(processed_emails, message_id) == processed_emails

\* mutant: the key replaces the set instead of joining it
sadd_overwrites(processed_emails, message_id) == {message_id}

\* tasks.py:68  redis_service.sadd("processed_emails", message_id)
sadd(processed_emails, message_id) == processed_emails \cup {message_id}

\* truth value of a Python str/bytes/None
Truthy(x) == x \notin {NULL, ""}

\* the locals of a run that has not started
IdleTask ==
    [pc |-> "idle", userIdx |-> 0, messages |-> << >>, msgIdx |-> 0,
     resume_messages |-> [u \in AllUsers |-> << >>],
     itemIdx |-> 0, listIdx |-> 0,
     candidate_info |-> EmptyDict, positions |-> << >>, posIdx |-> 0]

\* tasks.py:100  messages_dict.items(): the users that got a message appended,
\* in the order of insertion, which is the order of the user loop
Items(resume_messages) == SelectSeq(users, LAMBDA u : resume_messages[u] # << >>)

\* tasks.py:78-82  after the user loop
AfterMailLoop(t) ==
    IF Items(t.resume_messages) # << >>
    THEN [t EXCEPT !.pc = "extract", !.userIdx = 0, !.messages = << >>, !.msgIdx = 0,
                   !.itemIdx = 1, !.listIdx = 1]
    ELSE [t EXCEPT !.pc = "done", !.userIdx = 0, !.messages = << >>, !.msgIdx = 0]

\* mutant: the accepted messages are handed on as soon as a user's mail is read
NextUserEager(t) ==
    IF t.userIdx + 1 > Len(users) \/ Items(t.resume_messages) # << >>
    THEN AfterMailLoop(t)
    ELSE [t EXCEPT !.pc = "fetch", !.userIdx = @ + 1, !.messages = << >>, !.msgIdx = 0]

\* tasks.py:54  the next iteration of "for user in users"
NextUser(t) ==
    IF t.userIdx + 1 > Len(users)
    THEN AfterMailLoop(t)
    ELSE [t EXCEPT !.pc = "fetch", !.userIdx = @ + 1, !.messages = << >>, !.msgIdx = 0]

\* tasks.py:59  the next iteration of "for message in messages"
NextMessage(t) ==
    IF t.msgIdx + 1 > Len(t.messages)
    THEN NextUser(t)
    ELSE [t EXCEPT !.pc = "sismember", !.msgIdx = @ + 1]

\* tasks.py:100-102  the next message of create_candidates
NextCreate(t) ==
    LET items == Items(t.resume_messages)
        cleared == [t EXCEPT !.candidate_info = EmptyDict, !.positions = << >>,
                             !.posIdx = 0]
    IN  IF t.listIdx + 1 <= Len(t.resume_messages[items[t.itemIdx]])
        THEN [cleared EXCEPT !.pc = "extract", !.listIdx = @ + 1]
        ELSE IF t.itemIdx + 1 <= Len(items)
        THEN [cleared EXCEPT !.pc = "extract", !.itemIdx = @ + 1, !.listIdx = 1]
        ELSE [cleared EXCEPT !.pc = "done", !.itemIdx = 0, !.listIdx = 0]

CurrentUser(t) == users[t.userIdx]
CurrentMessage(t) == t.messages[t.msgIdx]
CreateUser(t) == Items(t.resume_messages)[t.itemIdx]
CreateMessage(t) == t.resume_messages[CreateUser(t)][t.listIdx]

\* the shape of event; call is one of "none", "start", "get_last_messages",
\* "sismember", "sadd", "is_resume", "get_candidate_info_from_resume",
\* "is_candidate_relevant_for_position"
NoEvent ==
    [call |-> "none", run |-> 0, user |-> 0, message |-> 0,
     answer |-> NULL,        \* the answer of the model or of Redis, when one was asked
     member |-> FALSE,       \* sismember: the key was in the ledger
     candidate_info |-> EmptyDict,
     positions |-> << >>,    \* the enumeration the position comes from
     posIdx |-> 0,           \* the place of the scored position in it
     invoked |-> FALSE,      \* the model was called
     result |-> FALSE,       \* what the call returned
     messages |-> << >>,     \* get_last_messages: the list it returned
     fail_at |-> -1,         \* get_last_messages: the messages appended before the
                             \* connection failed, -1 when it did not fail
     save |-> "none",        \* cv_file.save: "none" (not called), "ok" or "error"
     raised |-> FALSE]       \* an exception left the step

Init ==
    /\ position_table \in PositionTables
    /\ Mailbox \in Mailboxes
    /\ ledger = {}
    /\ candidates = << >>
    /\ task = [r \in Runs |-> IdleTask]
    /\ origin = << >>
    /\ is_resume_calls = [k \in Keys |-> 0]
    /\ extract_calls = [k \in Keys |-> 0]
    /\ event = NoEvent
    /\ NoRequests

(***************************************************************************)
(* check_email_task, one step at a time.                                   *)
(***************************************************************************)
\* celery.py:26-31  the beat schedule fires the task; the run before it has ended
StartRun(r) ==
    /\ task[r].pc = "idle"
    /\ r > 1 => task[r - 1].pc \in {"done", "raised"}
    /\ task' = [task EXCEPT ![r] = [IdleTask EXCEPT !.pc = "fetch", !.userIdx = 1]]
    /\ event' = [NoEvent EXCEPT !.call = "start", !.run = r]
    /\ UNCHANGED << webVars, position_table, Mailbox, ledger, candidates, origin,
                    is_resume_calls, extract_calls >>

\* celery.py:26-31  the beat schedule fires the task while the run before it,
\* slower than the 300 s period, is still at work on another worker
StartOverlappingRun(r) ==
    /\ task[r].pc = "idle"
    /\ r > 1
    /\ task[r - 1].pc \notin {"idle", "done", "raised"}
    /\ task' = [task EXCEPT ![r] = [IdleTask EXCEPT !.pc = "fetch", !.userIdx = 1]]
    /\ event' = [NoEvent EXCEPT !.call = "start", !.run = r]
    /\ UNCHANGED << webVars, position_table, Mailbox, ledger, candidates, origin,
                    is_resume_calls, extract_calls >>

\* tasks.py:57  messages = MailService.get_last_messages(user.email, user.gmail_password)
\* The connection may fail at login (fail_at = 0), between two messages, or at
\* the logout that ends the with block (fail_at = the length of the mailbox).
Fetch(r) ==
    LET t == task[r] IN
    /\ t.pc = "fetch"
    /\ \E fail_at \in 0..Len(Mailbox[CurrentUser(t)]), failed \in BOOLEAN :
          LET messages == get_last_messages(CurrentUser(t), fail_at) IN
          /\ ~failed => fail_at = Len(Mailbox[CurrentUser(t)])
          /\ task' = [task EXCEPT ![r] =
                         IF messages = << >>
                         THEN NextUser(t)
                         ELSE [t EXCEPT !.pc = "sismember", !.messages = messages,
                                        !.msgIdx = 1]]
          /\ event' = [NoEvent EXCEPT !.call = "get_last_messages", !.run = r,
                                      !.user = CurrentUser(t),
                                      !.answer = IF failed THEN "error" ELSE "ok",
                                      !.messages = messages,
                                      !.fail_at = IF failed THEN fail_at ELSE -1]
    /\ UNCHANGED << webVars, position_table, Mailbox, ledger, candidates, origin,
                    is_resume_calls, extract_calls >>

\* tasks.py:61-65  redis_service.sismember("processed_emails", message_id);
\* a Redis error is caught at tasks.py:75 and ends this user's loop
CheckProcessed(r) ==
    LET t == task[r]
        message_id == MessageKey(CurrentMessage(t))
        here == [NoEvent EXCEPT !.call = "sismember", !.run = r,
                                !.user = CurrentUser(t), !.message = CurrentMessage(t)]
    IN
    /\ t.pc = "sismember"
    /\ \E redis_ok \in BOOLEAN :
          IF ~redis_ok
          THEN /\ task' = [task EXCEPT ![r] = NextUser(t)]
               /\ event' = [here EXCEPT !.raised = TRUE]
          ELSE IF sismember(ledger, message_id)
          THEN /\ task' = [task EXCEPT ![r] = NextMessage(t)]
               /\ event' = [here EXCEPT !.member = TRUE]
          ELSE /\ task' = [task EXCEPT ![r] = [t EXCEPT !.pc = "sadd"]]
               /\ event' = here
    /\ UNCHANGED << webVars, position_table, Mailbox, ledger, candidates, origin,
                    is_resume_calls, extract_calls >>

\* tasks.py:68  redis_service.sadd("processed_emails", message_id)
MarkProcessed(r) ==
    LET t == task[r]
        message_id == MessageKey(CurrentMessage(t))
        here == [NoEvent EXCEPT !.call = "sadd", !.run = r,
                                !.user = CurrentUser(t), !.message = CurrentMessage(t)]
    IN
    /\ t.pc = "sadd"
    /\ \E redis_ok \in BOOLEAN :
          IF ~redis_ok
          THEN /\ task' = [task EXCEPT ![r] = NextUser(t)]
               /\ event' = [here EXCEPT !.raised = TRUE]
               /\ UNCHANGED ledger
          ELSE /\ ledger' = sadd(ledger, message_id)
               /\ task' = [task EXCEPT ![r] = [t EXCEPT !.pc = "is_resume"]]
               /\ event' = here
    /\ UNCHANGED << webVars, position_table, Mailbox, candidates, origin,
                    is_resume_calls, extract_calls >>

\* tasks.py:71-73  if llm.is_resume(...): resume_messages[user.id].append(message)
IsResume(r) ==
    LET t == task[r]
        message == CurrentMessage(t)
    IN
    /\ t.pc = "is_resume"
    /\ \E answer \in FlagAnswers :
          /\ task' = [task EXCEPT ![r] =
                         IF is_resume(answer)
                         THEN NextMessage([t EXCEPT !.resume_messages[CurrentUser(t)] =
                                                        Append(@, message)])
                         ELSE NextMessage(t)]
          /\ event' = [NoEvent EXCEPT !.call = "is_resume", !.run = r,
                                      !.user = CurrentUser(t), !.message = message,
                                      !.answer = answer, !.invoked = TRUE,
                                      !.result = is_resume(answer)]
    /\ is_resume_calls' = [is_resume_calls EXCEPT ![MessageKey(message)] = @ + 1]
    /\ UNCHANGED << webVars, position_table, Mailbox, ledger, candidates, origin,
                    extract_calls >>

(***************************************************************************)
(* CandidateOperations.create_candidate_from_email, called by              *)
(* create_candidates for each accepted message.                            *)
(***************************************************************************)
\* candidate.py:56-60  extraction and the enumeration of the user's positions;
\* the query has no ORDER BY, so any order of the rows may come back
Extract(r) ==
    LET t == task[r]
        message == CreateMessage(t)
    IN
    /\ t.pc = "extract"
    /\ \E answer \in ExtractAnswers, parsed \in ParsedCandidates,
          positions \in Enumerations(PositionsOf(CreateUser(t))) :
          LET candidate_info == get_candidate_info_from_resume(answer, parsed) IN
          /\ task' = [task EXCEPT ![r] =
                         IF positions = << >>
                         THEN NextCreate(t)
                         ELSE [t EXCEPT !.pc = "score",
                                        !.candidate_info = candidate_info,
                                        !.positions = positions, !.posIdx = 1]]
          /\ event' = [NoEvent EXCEPT !.call = "get_candidate_info_from_resume",
                                      !.run = r, !.user = CreateUser(t),
                                      !.message = message, !.answer = answer,
                                      !.invoked = TRUE,
                                      !.candidate_info = candidate_info,
                                      !.positions = positions]
    /\ extract_calls' = [extract_calls EXCEPT ![MessageKey(message)] = @ + 1]
    /\ UNCHANGED << webVars, position_table, Mailbox, ledger, candidates, origin,
                    is_resume_calls >>

\* models.py:210  telegram is a CharField without null=True: a row with
\* telegram NULL violates the NOT NULL constraint and create() raises
CreateRaises(row) == row.telegram = NULL

\* candidate.py:70  the default of full_name ("without a name", in Russian)
NoName == "Bez imeni"

\* candidate.py:65, 128  the cut of programming_language
ProgrammingLanguageCut == 100

\* candidate.py:66, 129  the cut of languages
LanguagesCut == 255

\* mutant: the text is cut before the line breaks are replaced
prog_langs_cut_first(candidate_info) ==
    ReplaceNewlines(Slice(DictGet(candidate_info, "programming_languages", << >>),
                          ProgrammingLanguageCut))

\* candidate.py:65, 128
prog_langs(candidate_info) ==
    Slice(ReplaceNewlines(DictGet(candidate_info, "programming_languages", << >>)),
          ProgrammingLanguageCut)

\* candidate.py:66, 129
langs(candidate_info) ==
    Slice(ReplaceNewlines(DictGet(candidate_info, "spoken_languages", << >>)),
          LanguagesCut)

\* candidate.py:68-81  the row Candidate.objects.create() is given; the fields
\* it is not given take the defaults of models.py:214-219
NewCandidate(position, candidate_info) ==
    [position |-> position,
     full_name |-> DictGet(candidate_info, "full_name", NoName),
     programming_language |-> prog_langs(candidate_info),
     languages |-> langs(candidate_info),
     gmail |-> DictGet(candidate_info, "email", NULL),
     telegram |-> DictGet(candidate_info, "telegram", ""),
     status |-> "new",
     scheduled_at |-> NULL,
     cv_file |-> NULL,
     audio_file |-> NULL]

\* x or y
Or(x, y) == IF Truthy(x) THEN x ELSE y

\* mutant: the row of an upload starts in the screening
NewCandidateFromDocumentScreening(position, candidate_info) ==
    [position |-> position,
     full_name |-> DictGet(candidate_info, "full_name", NoName),
     programming_language |-> prog_langs(candidate_info),
     languages |-> langs(candidate_info),
     gmail |-> DictGet(candidate_info, "email", NULL),
     telegram |-> Or(DictGet(candidate_info, "telegram", ""), ""),
     status |-> "screening",
     scheduled_at |-> NULL,
     cv_file |-> NULL,
     audio_file |-> NULL]

\* candidate.py:131-144  the row of create_candidate_from_single_document
NewCandidateFromDocument(position, candidate_info) ==
    [position |-> position,
     full_name |-> DictGet(candidate_info, "full_name", NoName),
     programming_language |-> prog_langs(candidate_info),
     languages |-> langs(candidate_info),
     gmail |-> DictGet(candidate_info, "email", NULL),
     telegram |-> Or(DictGet(candidate_info, "telegram", ""), ""),
     status |-> "new",
     scheduled_at |-> NULL,
     cv_file |-> NULL,
     audio_file |-> NULL]

\* mutant: the row is created whatever the verdict
LoopBodyWithoutVerdict(relevant, row) ==
    IF CreateRaises(row) THEN "raise" ELSE "create"

\* candidate.py:63-96  what the body of the loop does with the verdict on a position:
\* "continue" with the next one, "create" the row and break, or "raise"
LoopBody(relevant, row) ==
    IF ~relevant THEN "continue"
    ELSE IF CreateRaises(row) THEN "raise"
    ELSE "create"

\* mutant: the name of the file is on the row although the save failed
cv_file_save_keeps_name(row, message, saved) ==
    IF Truthy(Message[message].file_payload) /\ Truthy(Message[message].file_name)
    THEN [row EXCEPT !.cv_file = Message[message].file_name]
    ELSE row

\* candidate.py:85-94  candidate.cv_file.save(...) when the message has a payload
\* and a file name; an exception of the save is logged and the row stays as created
cv_file_save(row, message, saved) ==
    IF Truthy(Message[message].file_payload) /\ Truthy(Message[message].file_name)
       /\ saved
    THEN [row EXCEPT !.cv_file = Message[message].file_name]
    ELSE row

\* mutant: no break; the loop goes on to the positions after the match
AfterCreateNoBreak(t) ==
    IF t.posIdx + 1 <= Len(t.positions)
    THEN [t EXCEPT !.posIdx = @ + 1]
    ELSE NextCreate(t)

\* candidate.py:96  break: the loop over the positions ends with the Candidate
AfterCreate(t) == NextCreate(t)

\* candidate.py:62-96  one iteration of "for position in positions"
Score(r) ==
    LET t == task[r]
        message == CreateMessage(t)
        position == t.positions[t.posIdx]
        summary == candidate_info_str(t.candidate_info)
        row == NewCandidate(position, t.candidate_info)
    IN
    /\ t.pc = "score"
    /\ \E answer \in FlagAnswers, saved \in BOOLEAN :
          LET call == is_candidate_relevant_for_position(
                          summary, position_table[position], answer)
              here == [NoEvent EXCEPT !.call = "is_candidate_relevant_for_position",
                                      !.run = r, !.user = CreateUser(t),
                                      !.message = message,
                                      !.answer = IF call.invoked THEN answer ELSE NULL,
                                      !.candidate_info = t.candidate_info,
                                      !.positions = t.positions, !.posIdx = t.posIdx,
                                      !.invoked = call.invoked, !.result = call.result]
              does == LoopBody(call.result, row)
          IN
          IF does = "continue"
          THEN \* the next position, or the end of the loop
               /\ task' = [task EXCEPT ![r] =
                              IF t.posIdx + 1 <= Len(t.positions)
                              THEN [t EXCEPT !.posIdx = @ + 1]
                              ELSE NextCreate(t)]
               /\ event' = here
               /\ UNCHANGED << candidates, origin >>
          ELSE IF does = "raise"
          THEN \* IntegrityError leaves create_candidates and the task
               /\ task' = [task EXCEPT ![r] = [t EXCEPT !.pc = "raised"]]
               /\ event' = [here EXCEPT !.raised = TRUE]
               /\ UNCHANGED << candidates, origin >>
          ELSE \* the row is created, the file is saved or not, break
               /\ candidates' = Append(candidates, cv_file_save(row, message, saved))
               /\ origin' = Append(origin, [run |-> r, user |-> CreateUser(t),
                                            message |-> message])
               /\ task' = [task EXCEPT ![r] = AfterCreate(t)]
               /\ event' = [here EXCEPT !.save =
                               IF Truthy(Message[message].file_payload)
                                  /\ Truthy(Message[message].file_name)
                               THEN IF saved THEN "ok" ELSE "error"
                               ELSE "none"]
    /\ UNCHANGED << webVars, position_table, Mailbox, ledger, is_resume_calls,
                    extract_calls >>

(***************************************************************************)
(* Specifications.                                                         *)
(***************************************************************************)
\* runs that do not overlap: each firing finds the run before it ended
Next ==
    \E r \in Runs :
        \/ StartRun(r)
        \/ Fetch(r)
        \/ CheckProcessed(r)
        \/ MarkProcessed(r)
        \/ IsResume(r)
        \/ Extract(r)
        \/ Score(r)

Spec == Init /\ [][Next]_vars

\* runs that may overlap
NextOverlap ==
    \E r \in Runs :
        \/ StartRun(r)
        \/ StartOverlappingRun(r)
        \/ Fetch(r)
        \/ CheckProcessed(r)
        \/ MarkProcessed(r)
        \/ IsResume(r)
        \/ Extract(r)
        \/ Score(r)

InitOverlap ==
    /\ position_table \in OverlapPositionTables
    /\ Mailbox \in OverlapMailboxes
    /\ ledger = {}
    /\ candidates = << >>
    /\ task = [r \in Runs |-> IdleTask]
    /\ origin = << >>
    /\ is_resume_calls = [k \in Keys |-> 0]
    /\ extract_calls = [k \in Keys |-> 0]
    /\ event = NoEvent
    /\ NoRequests

SpecOverlap == InitOverlap /\ [][NextOverlap]_vars

(***************************************************************************)
(* The two ways a Candidate comes into being: the mail pipeline and the    *)
(* upload of one resume on the page of a position (views.py:283-297).      *)
(***************************************************************************)
\* number of uploads that are explored
MaxUploads == 1

\* uploaded_file.name and the bytes of the file; the form takes any name and
\* refuses the empty file
UploadedFiles ==
    { [filename |-> <<"c", "v", ".", "p", "d", "f">>, payload |-> "%PDF Ann"] }

\* the rows that were created by an upload
Uploads == { i \in DOMAIN candidates : origin[i].run = 0 }

\* candidate.py:99-155  create_candidate_from_single_document(uploaded_file, position)
UploadDocument ==
    /\ Cardinality(Uploads) < MaxUploads
    /\ \E position \in DOMAIN position_table, uploaded_file \in UploadedFiles,
          answer \in ExtractAnswers, parsed \in ParsedCandidates, saved \in BOOLEAN :
          LET filename == uploaded_file.filename
              extracted_text == read_document(filename, uploaded_file.payload)
              candidate_info == get_candidate_info_from_resume(answer, parsed)
              row == NewCandidateFromDocument(position, candidate_info)
          IN  /\ candidates' = Append(candidates,
                     IF saved THEN [row EXCEPT !.cv_file = Concat(filename)] ELSE row)
              /\ origin' = Append(origin, [run |-> 0, user |-> 0, message |-> 0])
              /\ event' = [NoEvent EXCEPT
                              !.call = "create_candidate_from_single_document",
                              !.answer = answer, !.invoked = TRUE,
                              !.candidate_info = candidate_info,
                              !.positions = <<position>>, !.posIdx = 1,
                              !.save = IF saved THEN "ok" ELSE "error"]
    /\ UNCHANGED << webVars, position_table, Mailbox, ledger, task, is_resume_calls,
                    extract_calls >>

NextIntake ==
    \/ \E r \in Runs :
          \/ StartRun(r)
          \/ Fetch(r)
          \/ CheckProcessed(r)
          \/ MarkProcessed(r)
          \/ IsResume(r)
          \/ Extract(r)
          \/ Score(r)
    \/ UploadDocument

\* one mailbox with one message, and the positions 1 and 3
InitIntake ==
    /\ position_table \in { t \in PositionTables : DOMAIN t # PositionIds }
    /\ Mailbox = [u \in AllUsers |-> IF u = 1 THEN <<1>> ELSE << >>]
    /\ ledger = {}
    /\ candidates = << >>
    /\ task = [r \in Runs |-> IdleTask]
    /\ origin = << >>
    /\ is_resume_calls = [k \in Keys |-> 0]
    /\ extract_calls = [k \in Keys |-> 0]
    /\ event = NoEvent
    /\ NoRequests

SpecIntake == InitIntake /\ [][NextIntake]_vars

(***************************************************************************)
(* The services on their own: each step is one call, with any file name,   *)
(* payload and list of attachments, and event holds the call and what it   *)
(* returned.  The database and the mailboxes are empty and stay so.        *)
(***************************************************************************)
\* DocumentReader.read_document(filename, payload)
ReadDocument ==
    /\ \E filename \in FileNames, payload \in Payloads :
          event' = [call |-> "read_document", filename |-> filename,
                    payload |-> payload,
                    text |-> read_document(filename, payload),
                    raised |-> FALSE]
    /\ UNCHANGED << webVars, position_table, Mailbox, ledger, candidates, task, origin,
                    is_resume_calls, extract_calls >>

\* mail_service.py:62-89  one iteration of "for message in mailbox.fetch(...)":
\* the attachment fields of the msg_data that is appended
ReadMessage ==
    /\ \E attachments \in AttachmentLists :
          LET fields == ReadAttachments(attachments, 1) IN
          event' = [call |-> "msg_data", attachments |-> attachments,
                    file_content |-> fields.file_content,
                    file_name |-> fields.file_name,
                    file_payload |-> fields.file_payload,
                    read |-> fields.read,
                    raised |-> FALSE]
    /\ UNCHANGED << webVars, position_table, Mailbox, ledger, candidates, task, origin,
                    is_resume_calls, extract_calls >>

NextServices ==
    \/ ReadDocument
    \/ ReadMessage

InitServices ==
    /\ position_table = << >>
    /\ Mailbox = [u \in AllUsers |-> << >>]
    /\ ledger = {}
    /\ candidates = << >>
    /\ task = [r \in Runs |-> IdleTask]
    /\ origin = << >>
    /\ is_resume_calls = [k \in Keys |-> 0]
    /\ extract_calls = [k \in Keys |-> 0]
    /\ event = NoEvent
    /\ NoRequests

SpecServices == InitServices /\ [][NextServices]_vars

(***************************************************************************)
(* The views of the recruiter (main/views.py): the upload of the recording *)
(* of an interview with its transcription thread, the scheduling of        *)
(* interviews, the letters of rejection, the mass delete and the           *)
(* scheduling of an interview with the Telegram bot.  A request is sent by *)
(* any logged in user and names any candidate.                             *)
(***************************************************************************)
\* number of requests that are explored
MaxRequests == 2

Requests == 1..MaxRequests

\* models.py:187-193  Candidate.STATUS_CHOICES
STATUS_CHOICES ==
    {"new", "screening", "interview_scheduled", "interview_passed", "offer", "rejected"}

\* the characters of the Telegram handles the rows hold
Chars(s) ==
    CASE s = "@ann" -> <<"@", "a", "n", "n">>
      [] s = "https://t.me/ann" ->
            <<"h", "t", "t", "p", "s", ":", "/", "/", "t", ".", "m", "e", "/", "a", "n", "n">>
      [] OTHER -> << >>

\* sub in s
Contains(s, sub) ==
    \E i \in 1..(Len(s) - Len(sub) + 1) : SubSeq(s, i, i + Len(sub) - 1) = sub

\* str.replace(old, ''), old not empty
RECURSIVE Remove(_, _)
Remove(s, old) ==
    IF Len(s) < Len(old) THEN s
    ELSE IF SubSeq(s, 1, Len(old)) = old
         THEN Remove(SubSeq(s, Len(old) + 1, Len(s)), old)
    ELSE <<Head(s)>> \o Remove(Tail(s), old)

\* views.py:928-930  the username the session is filed under
clean_username(telegram) ==
    LET stripped == Strip(Remove(Chars(telegram), <<"@">>)) IN
    Concat(IF Contains(stripped, <<"h", "t", "t", "p", "s">>)
           THEN Remove(stripped, <<"h", "t", "t", "p", "s", ":", "/", "/",
                                   "t", ".", "m", "e", "/">>)
           ELSE stripped)

\* the Candidate rows the requests find: three resumes that were uploaded,
\* one on position 1 and two on position 2
UploadedCandidates ==
    LET parsed == CHOOSE p \in ParsedCandidates : p.telegram = NULL
        info(telegram, email) ==
            get_candidate_info_from_resume("parsed",
                [parsed EXCEPT !.telegram = telegram, !.email = email])
    IN  << NewCandidateFromDocument(1, info("@ann", "ann@mail")),
           NewCandidateFromDocument(2, info("https://t.me/ann", NULL)),
           NewCandidateFromDocument(2, info(NULL, "ann@mail")) >>

\* Candidate.objects.filter(id=c).exists()
Exists(c) == c \in DOMAIN candidates

\* the filter position__project__users=user (position__project__projectuser__user=user)
Member(user, c) == <<PositionProject[candidates[c].position], user>> \in ProjectUser

\* the ids a request may name: the rows of the table, deleted or not
CandidateIds == DOMAIN UploadedCandidates

\* a request that has not been sent
IdleTxn ==
    [pc |-> "idle", user |-> 0, candidate_id |-> 0, candidate |-> EmptyDict,
     clean_username |-> "", old_sessions |-> {}]

\* what the last request was and what it did
ViewEvent(call, user, ids) ==
    [call |-> call, user |-> user, ids |-> ids,
     sent |-> {},            \* the candidates a letter was sent to
     failed |-> {},          \* the candidates whose letter could not be sent
     slots |-> << >>,        \* the slots the request assigned
     raised |-> FALSE]

\* views.py:907-924, 932-942  schedule_bot_interview up to the UPDATE of the old
\* sessions; the transaction is open and its writes are not yet seen by others
OpenBotInterview(q) ==
    /\ q = served + 1
    /\ served' = q
    /\ \E user \in AllUsers, c \in CandidateIds, valid \in BOOLEAN :
          LET name == clean_username(candidates[c].telegram) IN
          IF Exists(c) /\ Truthy(candidates[c].telegram) /\ valid
          THEN /\ txns' = [txns EXCEPT ![q] =
                              [pc |-> "open", user |-> user, candidate_id |-> c,
                               candidate |-> candidates[c],
                               clean_username |-> name,
                               old_sessions |->
                                   { s.id : s \in { x \in sessions :
                                                     /\ x.telegram_username = name
                                                     /\ x.status = "active" } }]]
               /\ event' = ViewEvent("schedule_bot_interview", user, {c})
          ELSE \* 404, no Telegram handle or a form that is not valid
               /\ txns' = [txns EXCEPT ![q] = [IdleTxn EXCEPT !.pc = "done"]]
               /\ event' = [ViewEvent("schedule_bot_interview", user, {c})
                               EXCEPT !.raised = TRUE]
    /\ UNCHANGED << position_table, Mailbox, ledger, candidates, task, origin,
                    is_resume_calls, extract_calls, sessions, calendar, threads >>

\* Model.save() of a row that was loaded before: UPDATE of every column, and
\* INSERT when the UPDATE finds no row
Save(c, row) == [i \in DOMAIN candidates \cup {c} |-> IF i = c THEN row ELSE candidates[i]]

\* views.py:944-958  the new session, the status of the candidate and the
\* commit that ends "with transaction.atomic()"
CommitBotInterview(q) ==
    LET t == txns[q] IN
    /\ t.pc = "open"
    /\ sessions' =
          { IF s.id \in t.old_sessions THEN [s EXCEPT !.status = "cancelled"] ELSE s
            : s \in sessions }
          \cup { [id |-> q, candidate |-> t.candidate_id,
                  telegram_username |-> t.clean_username, status |-> "active"] }
    /\ candidates' = Save(t.candidate_id,
                          [t.candidate EXCEPT !.status = "interview_scheduled"])
    /\ txns' = [txns EXCEPT ![q].pc = "done"]
    /\ event' = ViewEvent("commit", t.user, {t.candidate_id})
    /\ UNCHANGED << position_table, Mailbox, ledger, task, origin, is_resume_calls,
                    extract_calls, calendar, threads, served >>

\* CustomUser.username of the users; user 3 is a demonstration account
username ==
    [u \in AllUsers |->
        CASE u = 1 -> <<"h", "r", "1">>
          [] u = 2 -> <<"h", "r", "2">>
          [] OTHER -> <<"t", "e", "s", "t", "_", "u", "s", "e", "r", "3">>]

\* str.startswith(prefix)
startswith(s, prefix) == Len(s) >= Len(prefix) /\ SubSeq(s, 1, Len(prefix)) = prefix

\* views.py:57, 349  request.user.username.startswith('test_user')
IsTestUser(user) ==
    startswith(username[user], <<"t", "e", "s", "t", "_", "u", "s", "e", "r">>)

\* views.py:12-33  the modules views.py imports under their own name
ImportedModules ==
    {"datetime", "logging", "threading", "os", "llm_service", "mail_service",
     "parsing_servise", "audio_processing", "candidate"}

\* what request.FILES holds for audio_file: nothing, a file of no bytes (the
\* form refuses it) or a recording
AudioUploads == {"none", "empty", "audio"}

\* views.py:340-362, 431-442  candidate_detail, POST: the form is saved with the
\* status 'processing' and the transcription thread is started
AudioUpload(q) ==
    /\ q = served + 1
    /\ served' = q
    /\ txns' = [txns EXCEPT ![q] = [IdleTxn EXCEPT !.pc = "done"]]
    /\ \E user \in AllUsers, c \in CandidateIds, upload \in AudioUploads :
          LET here == ViewEvent("candidate_detail", user, {c})
              row == [candidates[c] EXCEPT
                         !.status = "processing",
                         !.audio_file = IF upload = "audio" THEN "interviews/a.mp3"
                                        ELSE @]
          IN
          IF ~(Exists(c) /\ Member(user, c)) \/ IsTestUser(user) \/ upload = "empty"
          THEN \* 404, the redirect of the demonstration account, a form with errors
               /\ event' = [here EXCEPT !.raised = TRUE]
               /\ UNCHANGED << candidates, threads >>
          ELSE /\ candidates' = Save(c, row)
               /\ IF Truthy(row.audio_file)
                  THEN /\ threads' = Append(threads, [cand_id |-> c, pc |-> "running"])
                       /\ event' = here
                  ELSE \* audio_file.path of a field without a file: ValueError
                       /\ threads' = threads
                       /\ event' = [here EXCEPT !.raised = TRUE]
    /\ UNCHANGED << position_table, Mailbox, ledger, task, origin, is_resume_calls,
                    extract_calls, sessions, calendar >>

\* views.py:416-417  the handler logs traceback.format_exc(): a NameError when
\* views.py has no module of that name
HandlerRaises == "traceback" \notin ImportedModules

\* views.py:368-429  background_transcription_task(cand_id, file_path); the
\* database may refuse the thread, and the row may be gone
BackgroundTask(i) ==
    /\ i \in DOMAIN threads
    /\ threads[i].pc = "running"
    /\ \E db_error \in BOOLEAN :
          LET cand_id == threads[i].cand_id
              here == ViewEvent("background_transcription_task", 0, {cand_id})
          IN
          /\ event' = [here EXCEPT !.raised = ~Exists(cand_id) \/ db_error]
          /\ IF Exists(cand_id) /\ ~db_error
             THEN \* views.py:401-408
                  /\ candidates' = Save(cand_id, [candidates[cand_id] EXCEPT
                                                     !.status = "interview_passed"])
                  /\ threads' = [threads EXCEPT ![i].pc = "done"]
             ELSE \* views.py:415-427  except Exception
                  IF HandlerRaises
                  THEN /\ threads' = [threads EXCEPT ![i].pc = "raised"]
                       /\ UNCHANGED candidates
                  ELSE /\ threads' = [threads EXCEPT ![i].pc = "done"]
                       /\ candidates' =
                             IF Exists(cand_id)
                             THEN Save(cand_id, [candidates[cand_id] EXCEPT
                                                    !.status = "failed"])
                             ELSE candidates
    /\ UNCHANGED << position_table, Mailbox, ledger, task, origin, is_resume_calls,
                    extract_calls, sessions, calendar, txns, served >>

\* number of candidates one request selects
MaxSelected == 2

\* views.py:653  the days one search looks at
SearchDays == 14

\* the days of the calendar, day 1 being the day after the request; no search
\* of a request with MaxSelected candidates leaves them
Days == 1..(SearchDays * MaxSelected + 1)

\* CustomUser.google_credentials and the three Zoom keys of the users
google_credentials == [u \in AllUsers |-> IF u = 3 THEN NULL ELSE "token"]

zoom_keys == [u \in AllUsers |-> IF u = 3 THEN <<NULL, NULL, NULL>> ELSE <<"a", "b", "c">>]

\* all([...])
all(xs) == \A i \in DOMAIN xs : Truthy(xs[i])

\* request.POST.getlist('candidate_ids'): no id, or up to MaxSelected different ones
Selections ==
    { ids \in UNION { [1..n -> CandidateIds] : n \in 0..MaxSelected } :
         \A i, j \in DOMAIN ids : ids[i] = ids[j] => i = j }

\* calendar_service.py:38-91  get_free_slots(date_check): the starts of the
\* gaps of that day that hold a meeting
get_free_slots(cal, date_check) ==
    IF date_check \in DOMAIN cal
    THEN [gap \in 1..cal[date_check] |-> [day |-> date_check, gap |-> gap]]
    ELSE << >>

\* views.py:684  the datetime of a slot as the column scheduled_at holds it
SlotTime(slot) == ToString(slot.day) \o "T" \o ToString(slot.gap)

\* views.py:653-657  the search of one candidate; the cache is empty
RECURSIVE SearchSlots(_, _, _)
SearchSlots(cal, current_search_date, attempts) ==
    IF attempts < SearchDays
    THEN LET available_slots_cache == get_free_slots(cal, current_search_date) IN
         IF available_slots_cache = << >>
         THEN SearchSlots(cal, current_search_date + 1, attempts + 1)
         ELSE [available_slots_cache |-> available_slots_cache,
               current_search_date |-> current_search_date]
    ELSE [available_slots_cache |-> << >>, current_search_date |-> current_search_date]

\* views.py:636-637  the locals of the loop before its first iteration
LoopStart ==
    [table |-> candidates, cal |-> calendar, current_search_date |-> 1,
     available_slots_cache |-> << >>, slots |-> << >>]

\* views.py:640-692  one iteration of "for c_id in candidate_ids"; fails: Zoom
\* or Google refuses the meeting of this candidate
ScheduleOne(user, c_id, fails, st) ==
    IF ~(c_id \in DOMAIN st.table
         /\ <<PositionProject[st.table[c_id].position], user>> \in ProjectUser)
    THEN st     \* Candidate.DoesNotExist
    ELSE IF ~Truthy(st.table[c_id].gmail) THEN st
    ELSE IF st.table[c_id].status = "interview_scheduled" THEN st
    ELSE
    LET found == IF st.available_slots_cache # << >>
                 THEN [available_slots_cache |-> st.available_slots_cache,
                       current_search_date |-> st.current_search_date]
                 ELSE SearchSlots(st.cal, st.current_search_date, 0)
    IN
    IF found.available_slots_cache = << >>
    THEN [st EXCEPT !.current_search_date = found.current_search_date]
    ELSE
    LET best_slot == Head(found.available_slots_cache)
        popped == [st EXCEPT
                      !.available_slots_cache = Tail(found.available_slots_cache),
                      !.current_search_date = found.current_search_date]
    IN
    IF fails THEN popped
    ELSE [popped EXCEPT
             !.cal[best_slot.day] = @ - 1,
             !.table[c_id] = [@ EXCEPT !.status = "interview_scheduled",
                                       !.scheduled_at = SlotTime(best_slot)],
             !.slots = Append(@, best_slot)]

\* views.py:640  for c_id in candidate_ids
RECURSIVE ScheduleLoop(_, _, _, _, _)
ScheduleLoop(user, candidate_ids, failing, i, st) ==
    IF i > Len(candidate_ids) THEN st
    ELSE ScheduleLoop(user, candidate_ids, failing, i + 1,
                      ScheduleOne(user, candidate_ids[i], candidate_ids[i] \in failing, st))

\* views.py:572-700  schedule_interviews
ScheduleInterviews(q) ==
    /\ q = served + 1
    /\ served' = q
    /\ txns' = [txns EXCEPT ![q] = [IdleTxn EXCEPT !.pc = "done"]]
    /\ \E user \in AllUsers, candidate_ids \in Selections, init_fails \in BOOLEAN :
       \E failing \in SUBSET { candidate_ids[i] : i \in DOMAIN candidate_ids } :
          LET ids == { candidate_ids[i] : i \in DOMAIN candidate_ids }
              here == ViewEvent("schedule_interviews", user, ids)
              end == ScheduleLoop(user, candidate_ids, failing, 1, LoopStart)
          IN
          IF \/ IsTestUser(user)
             \/ candidate_ids = << >>
             \/ ~Truthy(google_credentials[user])
             \/ ~all(zoom_keys[user])
             \/ init_fails
          THEN /\ failing = {}
               /\ event' = [here EXCEPT !.raised = TRUE]
               /\ UNCHANGED << candidates, calendar >>
          ELSE /\ candidates' = end.table
               /\ calendar' = end.cal
               /\ event' = [here EXCEPT !.slots = end.slots]
    /\ UNCHANGED << position_table, Mailbox, ledger, task, origin, is_resume_calls,
                    extract_calls, sessions, threads >>

\* views.py:821-836  delete_candidates_mass; the sessions of a candidate go
\* with it (models.py:258, on_delete=CASCADE)
DeleteCandidatesMass(q) ==
    /\ q = served + 1
    /\ served' = q
    /\ txns' = [txns EXCEPT ![q] = [IdleTxn EXCEPT !.pc = "done"]]
    /\ \E user \in AllUsers, candidate_ids \in Selections :
          LET ids == { candidate_ids[i] : i \in DOMAIN candidate_ids }
              found == { c \in ids : Exists(c) /\ Member(user, c) }
          IN  /\ candidates' = [c \in DOMAIN candidates \ found |-> candidates[c]]
              /\ sessions' = { s \in sessions : s.candidate \notin found }
              /\ event' = ViewEvent("delete_candidates_mass", user, ids)
    /\ UNCHANGED << position_table, Mailbox, ledger, task, origin, is_resume_calls,
                    extract_calls, calendar, threads >>

\* CustomUser.email of the users
email == [u \in AllUsers |-> IF u = 3 THEN "" ELSE "hr@mail"]

\* mutant: the status is set whether the letter was sent or not
RejectedAfterSendAnyway(row, sent) == [row EXCEPT !.status = "rejected"]

\* views.py:888-902  the try of one candidate: the status is set after
\* send_message returned, and not when it raised
RejectedAfterSend(row, sent) == IF sent THEN [row EXCEPT !.status = "rejected"] ELSE row

\* views.py:845-905  send_rejection_emails; refused: the candidates whose letter
\* the mail server does not take
SendRejectionEmails(q) ==
    /\ q = served + 1
    /\ served' = q
    /\ txns' = [txns EXCEPT ![q] = [IdleTxn EXCEPT !.pc = "done"]]
    /\ \E user \in AllUsers, candidate_ids \in Selections :
       \E refused \in SUBSET { candidate_ids[i] : i \in DOMAIN candidate_ids } :
          LET ids == { candidate_ids[i] : i \in DOMAIN candidate_ids }
              here == ViewEvent("send_rejection_emails", user, ids)
              found == { c \in ids : Exists(c) /\ Member(user, c) }
              mailed == { c \in found : Truthy(candidates[c].gmail) }
          IN
          IF ~Truthy(email[user]) \/ ~Truthy(gmail_password[user])
          THEN /\ refused = {}
               /\ event' = [here EXCEPT !.raised = TRUE]
               /\ UNCHANGED candidates
          ELSE /\ refused \subseteq mailed
               /\ candidates' =
                     [c \in DOMAIN candidates |->
                         IF c \in mailed
                         THEN RejectedAfterSend(candidates[c], c \notin refused)
                         ELSE candidates[c]]
               /\ event' = [here EXCEPT !.sent = mailed \ refused, !.failed = refused]
    /\ UNCHANGED << position_table, Mailbox, ledger, task, origin, is_resume_calls,
                    extract_calls, sessions, calendar, threads >>

\* the calendar of the recruiter when the requests are sent
ViewsCalendar == [d \in Days |-> IF d \in {2, SearchDays + 2} THEN 1 ELSE 0]

NextViews ==
    \/ \E q \in Requests :
          \/ AudioUpload(q)
          \/ ScheduleInterviews(q)
          \/ DeleteCandidatesMass(q)
          \/ SendRejectionEmails(q)
          \/ OpenBotInterview(q)
          \/ CommitBotInterview(q)
    \/ \E i \in Requests : BackgroundTask(i)

InitViews ==
    /\ position_table = [p \in PositionIds |-> << >>]
    /\ Mailbox = [u \in AllUsers |-> << >>]
    /\ ledger = {}
    /\ candidates = UploadedCandidates
    /\ task = [r \in Runs |-> IdleTask]
    /\ origin = [c \in DOMAIN UploadedCandidates |-> [run |-> 0, user |-> 0, message |-> 0]]
    /\ is_resume_calls = [k \in Keys |-> 0]
    /\ extract_calls = [k \in Keys |-> 0]
    /\ event = NoEvent
    /\ sessions = {}
    /\ calendar = ViewsCalendar
    /\ threads = << >>
    /\ txns = [q \in Requests |-> IdleTxn]
    /\ served = 0

SpecViews == InitViews /\ [][NextViews]_vars

(***************************************************************************)
(* schedule_interviews on its own, for any calendar of a family in which   *)
(* the free gaps lie at the start, at the end and beyond the two weeks     *)
(* after the request.                                                      *)
(***************************************************************************)
\* the days that have free gaps in some calendar
FreeDays == {1, SearchDays, SearchDays + 1, 2 * SearchDays}

\* every day of a calendar has no gap, or as many as the others that have one
Calendars ==
    { [d \in Days |-> IF d \in F THEN n ELSE 0] : F \in SUBSET FreeDays, n \in 1..2 }

NextScheduling == \E q \in Requests : ScheduleInterviews(q)

InitScheduling ==
    /\ position_table = [p \in PositionIds |-> << >>]
    /\ Mailbox = [u \in AllUsers |-> << >>]
    /\ ledger = {}
    /\ candidates = UploadedCandidates
    /\ task = [r \in Runs |-> IdleTask]
    /\ origin = [c \in DOMAIN UploadedCandidates |-> [run |-> 0, user |-> 0, message |-> 0]]
    /\ is_resume_calls = [k \in Keys |-> 0]
    /\ extract_calls = [k \in Keys |-> 0]
    /\ event = NoEvent
    /\ sessions = {}
    /\ calendar \in Calendars
    /\ threads = << >>
    /\ txns = [q \in Requests |-> IdleTxn]
    /\ served = 0

SpecScheduling == InitScheduling /\ [][NextScheduling]_vars

(***************************************************************************)
(* Properties.                                                             *)
(***************************************************************************)
\* the Candidate rows created from a message with ledger key k
CandidatesOfKey(k) ==
    { i \in DOMAIN candidates : MessageKey(origin[i].message) = k }

\* the Candidate rows one call of create_candidate_from_email created
CandidatesOfCall(r, m) ==
    { i \in DOMAIN candidates : origin[i].run = r /\ origin[i].message = m }

\* the position the last step scored
ScoredPosition == event.positions[event.posIdx]

\* a text that is empty or holds nothing but whitespace
OnlyWhitespace(text) == \A i \in DOMAIN text : text[i] \in Whitespace

Scored == event.call = "is_candidate_relevant_for_position"

\* C1: over runs that do not overlap, at most one Candidate is ever created for a
\* ledger key, and a membership check that finds the key marked skips the message
\* (the run goes on to the next message, not to sadd and the classifier).
C1_OneCandidatePerKey ==
    /\ \A k \in Keys : Cardinality(CandidatesOfKey(k)) <= 1
    /\ ( /\ event.call = "sismember"
         /\ ~event.raised
         /\ MessageKey(event.message) \in ledger )
       => event.member /\ task[event.run].pc \notin {"sadd", "is_resume"}

\* a second run skips a message whose key got a Candidate in the first run
C1_Witness ==
    /\ event.call = "sismember"
    /\ event.member
    /\ event.run = 2
    /\ \E i \in CandidatesOfKey(MessageKey(event.message)) : origin[i].run = 1

\* C2: when two runs overlap, at most one of them classifies a message with a
\* given ledger key and at most one Candidate is created for the key.
C2_OverlapAtMostOnce ==
    \A k \in Keys :
        /\ is_resume_calls[k] <= 1
        /\ Cardinality(CandidatesOfKey(k)) <= 1

\* C3: the classifier is called for a message only after its key was added to
\* the ledger, and extraction is called only for messages whose key is in it.
C3_MarkedBeforeClassified ==
    /\ \A r \in Runs :
          task[r].pc = "is_resume" => MessageKey(CurrentMessage(task[r])) \in ledger
    /\ event.call = "is_resume" => MessageKey(event.message) \in ledger
    /\ event.call = "get_candidate_info_from_resume"
          => MessageKey(event.message) \in ledger
    /\ \A k \in Keys : is_resume_calls[k] + extract_calls[k] > 0 => k \in ledger

\* a message was classified as a resume, its key being in the ledger
C3_Witness ==
    /\ event.call = "is_resume"
    /\ event.result
    /\ MessageKey(event.message) \in ledger

\* C4: over runs that do not overlap, no step removes a key from the ledger, and
\* no step brings the calls of is_resume or of get_candidate_info_from_resume
\* for one key above one.
C4_NeverReprocessed ==
    [][ /\ ledger \subseteq ledger'
        /\ \A k \in Keys : is_resume_calls'[k] <= 1 /\ extract_calls'[k] <= 1 ]_vars

\* the second run skips a message whose first processing was classified and
\* extracted and then ended in the failure of Candidate.objects.create
C4_Witness ==
    /\ event.call = "sismember"
    /\ event.member
    /\ event.run = 2
    /\ task[1].pc = "raised"
    /\ is_resume_calls[MessageKey(event.message)] = 1
    /\ extract_calls[MessageKey(event.message)] = 1
    /\ CandidatesOfKey(MessageKey(event.message)) = {}
    /\ MessageKey(task[1].resume_messages[CreateUser(task[1])][task[1].listIdx])
          = MessageKey(event.message)

\* C5: when a position scores relevant and a later position of the enumeration
\* is relevant too (its requirements are blank), the call has created exactly
\* one Candidate, attached to the position that scored relevant first.
C5_FirstMatchWins ==
    ( /\ Scored
      /\ event.result
      /\ \E j \in DOMAIN event.positions :
            j > event.posIdx /\ OnlyWhitespace(position_table[event.positions[j]]) )
    => /\ Cardinality(CandidatesOfCall(event.run, event.message)) = 1
       /\ \A i \in CandidatesOfCall(event.run, event.message) :
             candidates[i].position = ScoredPosition

\* C6: a call whose extraction returned the empty record creates no Candidate,
\* and the key of its message stays in the ledger.
C6_EmptyRecordNoCandidate ==
    (Scored /\ event.candidate_info = EmptyDict)
    => /\ CandidatesOfCall(event.run, event.message) = {}
       /\ MessageKey(event.message) \in ledger

\* C7: as long as no position has scored relevant for a message, and when the
\* user has no position at all, the call has created no Candidate for it.
C7_NoMatchNoCandidate ==
    /\ (Scored /\ ~event.result)
          => CandidatesOfCall(event.run, event.message) = {}
    /\ (event.call = "get_candidate_info_from_resume" /\ event.positions = << >>)
          => CandidatesOfCall(event.run, event.message) = {}

\* the last of two positions was scored after a failed call and the call of
\* create_candidate_from_email ended without a Candidate
C7_Witness ==
    /\ Scored
    /\ ~event.result
    /\ event.answer = "error"
    /\ event.posIdx = Len(event.positions)
    /\ Len(event.positions) > 1
    /\ task[event.run].pc # "score"
    /\ CandidatesOfCall(event.run, event.message) = {}

\* C8: for a position whose requirements are empty or whitespace-only the call
\* returns true and the model is not invoked, whatever the candidate summary.
C8_OpenRequirements ==
    (Scored /\ OnlyWhitespace(position_table[ScoredPosition]))
    => event.result /\ ~event.invoked

\* a position with whitespace-only requirements was scored for the summary of
\* an extracted candidate
C8_Witness ==
    /\ Scored
    /\ position_table[ScoredPosition] = <<" ", "\n">>
    /\ event.candidate_info # EmptyDict
    /\ event.result
    /\ ~event.invoked

\* C9: when the model is asked and the call fails, returns an empty parsed
\* answer or fails validation, the call returns false and no Candidate is
\* created for that position.
C9_FailClosed ==
    (Scored /\ event.invoked /\ event.answer \in {"error", "empty", "invalid"})
    => /\ ~event.result
       /\ \A i \in CandidatesOfCall(event.run, event.message) :
             candidates[i].position # ScoredPosition

\* the answer of the model failed validation for a position with requirements
C9_Witness ==
    /\ Scored
    /\ event.invoked
    /\ event.answer = "invalid"
    /\ ~OnlyWhitespace(position_table[ScoredPosition])
    /\ ~event.result

\* C10: when a run has ended, by returning or by an exception, no accepted
\* message of another user than the one being processed is left unprocessed.
C10_FailureIsolated ==
    \A r \in Runs :
        task[r].pc = "raised"
        => \A j \in DOMAIN Items(task[r].resume_messages) : j <= task[r].itemIdx

C12_EmptyOnFailure ==
    event.call = "read_document"
    => /\ ( /\ ~endswith(lower(event.filename), <<".", "p", "d", "f">>)
            /\ ~endswith(lower(event.filename), <<".", "d", "o", "c", "x">>) )
          => event.text = << >>
       /\ ExtractionFails(event.filename, event.payload) => event.text = << >>
       /\ ~event.raised

\* the attachments of the last msg_data from which read_document returns text
YieldingText ==
    { i \in DOMAIN event.attachments :
        read_document(event.attachments[i].filename, event.attachments[i].payload)
            # << >> }

C13_ServicesNeverRaise ==
    /\ event.call = "is_resume"
          => /\ ~event.raised
             /\ task[event.run].pc # "raised"
             /\ event.answer \in {"error", "empty", "invalid"} => ~event.result
    /\ event.call = "get_candidate_info_from_resume"
          => /\ ~event.raised
             /\ task[event.run].pc # "raised"
             /\ event.answer \in {"error", "empty", "invalid"}
                   => event.candidate_info = EmptyDict
    /\ (Scored /\ event.invoked /\ event.answer \in {"error", "empty", "invalid"})
          => /\ ~event.result
             /\ ~event.raised
             /\ task[event.run].pc # "raised"

\* the extracted record failed validation: the call returned the empty record
\* and the run went on to score the positions
C13_Witness ==
    /\ event.call = "get_candidate_info_from_resume"
    /\ event.answer = "invalid"
    /\ event.candidate_info = EmptyDict
    /\ task[event.run].pc = "score"

\* C14: when the save of the resume file raises after the Candidate was
\* created, the Candidate is there with cv_file unset, nothing is raised out of
\* create_candidate_from_email and the batch goes on to the next message, or
\* ends when there is none.
C14_SaveFailureKeepsCandidate ==
    (Scored /\ event.save = "error")
    => /\ \E i \in CandidatesOfCall(event.run, event.message) :
             /\ candidates[i].position = ScoredPosition
             /\ candidates[i].cv_file = NULL
       /\ \A i \in CandidatesOfCall(event.run, event.message) :
             candidates[i].cv_file = NULL
       /\ ~event.raised
       /\ task[event.run].pc \in {"extract", "done"}
       /\ task[event.run].pc = "extract"
             => CreateMessage(task[event.run]) # event.message

\* the save failed for the message of the first user and the batch is at the
\* message of the second one
C14_Witness ==
    /\ Scored
    /\ event.save = "error"
    /\ task[event.run].pc = "extract"
    /\ CreateUser(task[event.run]) # event.user
    /\ \E i \in CandidatesOfCall(event.run, event.message) :
          candidates[i].cv_file = NULL

\* C15: a message that leaves the pipeline at a gate (its key is already in the
\* ledger, it is classified as not a resume, its extraction is empty, or no
\* position matches) leaves no Candidate and no resume file behind: the only
\* trace of it is its key in the ledger.
C15_GateExitLeavesNothing ==
    /\ (event.call = "sismember" /\ event.member)
          => CandidatesOfCall(event.run, event.message) = {}
    /\ (event.call = "is_resume" /\ ~event.result)
          => /\ CandidatesOfCall(event.run, event.message) = {}
             /\ MessageKey(event.message) \in ledger
    /\ (Scored /\ event.candidate_info = EmptyDict)
          => /\ CandidatesOfCall(event.run, event.message) = {}
             /\ MessageKey(event.message) \in ledger
    /\ (Scored /\ ~event.result /\ event.posIdx = Len(event.positions))
          => /\ CandidatesOfCall(event.run, event.message) = {}
             /\ MessageKey(event.message) \in ledger

\* the last step created a Candidate: the last row of candidates, made from
\* event.candidate_info
Created ==
    \/ Scored /\ event.result /\ ~event.raised
    \/ event.call = "create_candidate_from_single_document"

CreatedRow == candidates[Len(candidates)]

\* the line breaks among the first i characters of text
Newlines(text, i) == Cardinality({ k \in 1..i : text[k] = "\n" })

\* stored is text with every line break replaced by ", ", cut to cut characters
ReplacedAndCut(stored, text, cut) ==
    /\ Len(stored) = IF Len(text) + Newlines(text, Len(text)) < cut
                     THEN Len(text) + Newlines(text, Len(text))
                     ELSE cut
    /\ \A i \in DOMAIN text :
          LET at == i + Newlines(text, i - 1) IN
          /\ (at <= Len(stored) /\ text[i] # "\n") => stored[at] = text[i]
          /\ (at <= Len(stored) /\ text[i] = "\n") => stored[at] = ","
          /\ (at + 1 <= Len(stored) /\ text[i] = "\n") => stored[at + 1] = " "

\* C16: on a Candidate created from an extracted record, programming_language is
\* the extracted programming_languages with every line break replaced by ", "
\* and then cut to its first 100 characters, languages is spoken_languages with
\* the same replacement cut to 255 characters, and no stored row exceeds these
\* lengths.
C16_LanguagesReplacedAndCut ==
    /\ Created
          => /\ ReplacedAndCut(CreatedRow.programming_language,
                               DictGet(event.candidate_info, "programming_languages",
                                       << >>), 100)
             /\ ReplacedAndCut(CreatedRow.languages,
                               DictGet(event.candidate_info, "spoken_languages",
                                       << >>), 255)
    /\ \A i \in DOMAIN candidates :
          /\ Len(candidates[i].programming_language) <= 100
          /\ Len(candidates[i].languages) <= 255

\* the mail pipeline created a Candidate from texts of 150 and 300 characters
\* whose line breaks fall on the 100th and the 255th character: the stored
\* texts end with the comma of the replacement
C16_Witness ==
    /\ Scored
    /\ Created
    /\ event.candidate_info # EmptyDict
    /\ Len(event.candidate_info["programming_languages"]) = 150
    /\ Len(event.candidate_info["spoken_languages"]) = 300
    /\ Len(CreatedRow.programming_language) = 100
    /\ CreatedRow.programming_language[100] = ","
    /\ Len(CreatedRow.languages) = 255
    /\ CreatedRow.languages[255] = ","

\* C17: the telegram the mail pipeline passes to Candidate.objects.create is
\* never null: a null telegram of the extracted record is passed as "".
C17_TelegramNeverNull ==
    (Scored /\ event.result)
    => /\ NewCandidate(ScoredPosition, event.candidate_info).telegram # NULL
       /\ DictGet(event.candidate_info, "telegram", NULL) = NULL
             => NewCandidate(ScoredPosition, event.candidate_info).telegram = ""

\* C18: a Candidate created by the mail pipeline or by the upload of one
\* document has the status "new", no audio file and no time of an interview.
C18_CreatedAsNew ==
    /\ Created
          => /\ CreatedRow.status = "new"
             /\ CreatedRow.audio_file = NULL
             /\ CreatedRow.scheduled_at = NULL
    /\ \A i \in DOMAIN candidates :
          /\ candidates[i].status = "new"
          /\ candidates[i].audio_file = NULL
          /\ candidates[i].scheduled_at = NULL

\* an upload and the mail pipeline have each created a Candidate, the one of
\* the upload last and with its file saved
C18_Witness ==
    /\ event.call = "create_candidate_from_single_document"
    /\ event.save = "ok"
    /\ CreatedRow.cv_file = "cv.pdf"
    /\ CreatedRow.status = "new"
    /\ \E i \in DOMAIN candidates : origin[i].run # 0

\* the places of a run inside the mail loop of tasks.py:54-76
MailLoop == {"fetch", "sismember", "sadd", "is_resume"}

\* the places of a run inside create_candidates
Creating == {"extract", "score"}

\* C20: within a run, extraction and the creation of Candidates begin only when
\* the mail loop is over for every selected user (the last user's last message
\* was checked and classified, or the handling of the last user ended), the
\* run never goes back into the mail loop, and only messages that the loop of
\* this run classified as resumes are extracted.
C20_ExtractionAfterMailLoop ==
    /\ [](\A i \in DOMAIN candidates : task[origin[i].run].pc \notin MailLoop)
    /\ [](event.call \in {"get_candidate_info_from_resume",
                          "is_candidate_relevant_for_position"}
            => /\ \E j \in DOMAIN task[event.run].resume_messages[event.user] :
                     task[event.run].resume_messages[event.user][j] = event.message
               /\ is_resume_calls[MessageKey(event.message)] >= 1
               /\ task[event.run].pc \notin MailLoop)
    /\ [][ \A r \in Runs :
             /\ task[r].pc \in Creating => task'[r].pc \notin MailLoop
             /\ (task[r].pc \in MailLoop /\ task'[r].pc \in Creating)
                   => /\ task[r].userIdx = Len(users)
                      /\ task[r].pc \in {"sismember", "is_resume"}
                            => \/ task[r].msgIdx = Len(task[r].messages)
                               \/ event'.raised ]_vars

\* the message of the first user is extracted after the messages of the second
\* user were checked and one of them was classified as a resume
C20_Witness ==
    /\ event.call = "get_candidate_info_from_resume"
    /\ event.user = 1
    /\ task[event.run].resume_messages[2] # << >>
    /\ \A k \in Keys : k \in ledger /\ is_resume_calls[k] = 1

\* C21: every Candidate the mail pipeline creates from a message of user U's
\* mailbox is attached to a position of a project U is a member of, and the
\* positions scored for a message hold each position once, also for a user
\* with several memberships.
C21_ScopedDistinctPositions ==
    /\ \A i \in DOMAIN candidates :
          origin[i].run # 0
          => <<PositionProject[candidates[i].position], origin[i].user>> \in ProjectUser
    /\ event.call \in {"get_candidate_info_from_resume",
                       "is_candidate_relevant_for_position"}
          => /\ \A i, j \in DOMAIN event.positions :
                   event.positions[i] = event.positions[j] => i = j
             /\ \A i \in DOMAIN event.positions :
                   <<PositionProject[event.positions[i]], event.user>> \in ProjectUser

\* user 1, a member of two projects, got a Candidate at the second of the two
\* positions that were enumerated, the one that user 2 reaches too
C21_Witness ==
    /\ Scored
    /\ Created
    /\ event.user = 1
    /\ Len(event.positions) = 2
    /\ event.posIdx = 2
    /\ CreatedRow.position = 2
    /\ <<PositionProject[2], 2>> \in ProjectUser

\* C22: the key of every message a run classifies is in the ledger, whether the
\* classifier rejects it, a position matches or none does, and the run creates
\* one Candidate for each message that is classified as a resume and scores
\* relevant for a position, attached to that position, and none for the others.
C22_KeysMarkedCandidatesCounted ==
    /\ event.call = "is_resume" => MessageKey(event.message) \in ledger
    /\ Scored => MessageKey(event.message) \in ledger
    /\ (Scored /\ event.result)
          => /\ Cardinality(CandidatesOfCall(event.run, event.message)) = 1
             /\ \A i \in CandidatesOfCall(event.run, event.message) :
                   candidates[i].position = ScoredPosition
    /\ (Scored /\ ~event.result /\ event.posIdx = Len(event.positions))
          => CandidatesOfCall(event.run, event.message) = {}

\* C23: the positions of a message are scored one at a time in the order of
\* the enumeration, starting with the first: after a position that does not
\* score relevant the next one is scored, and after the first position that
\* scores relevant no further position is scored for the message.
C23_ScoredInOrderUntilMatch ==
    /\ []( (event.call = "get_candidate_info_from_resume" /\ event.positions # << >>)
             => /\ task[event.run].pc = "score"
                /\ task[event.run].positions = event.positions
                /\ task[event.run].posIdx = 1 )
    /\ []( (Scored /\ ~event.result /\ event.posIdx < Len(event.positions))
             => /\ task[event.run].pc = "score"
                /\ task[event.run].positions = event.positions
                /\ task[event.run].posIdx = event.posIdx + 1 )
    /\ []( (Scored /\ event.result) => task[event.run].pc # "score" )
    /\ [][ \A r \in Runs :
             (task[r].pc = "score" /\ task'[r] # task[r])
             => /\ event'.call = "is_candidate_relevant_for_position"
                /\ event'.run = r
                /\ event'.posIdx = task[r].posIdx
                /\ event'.positions = task[r].positions
                /\ task'[r].pc = "score"
                      => /\ ~event'.result
                         /\ task'[r].positions = task[r].positions
                         /\ task'[r].posIdx = task[r].posIdx + 1 ]_vars

\* the first of two positions scored relevant: the Candidate was created and
\* the second position was not scored
C23_Witness ==
    /\ Scored
    /\ event.result
    /\ Created
    /\ event.posIdx = 1
    /\ Len(event.positions) = 2
    /\ task[event.run].pc # "score"
    /\ CreatedRow.position = event.positions[1]

\* two messages have the same sender and the same timestamp
SameSenderAndDate(m, n) ==
    Message[m].from = Message[n].from /\ Message[m].date = Message[n].date

\* C24: the ledger is one set for all users and its keys hold the sender and
\* the timestamp only.  Over runs that do not overlap, a message whose sender
\* and timestamp were marked while another user's mailbox was processed is
\* skipped without classification, in the same run and in later ones, and no
\* second Candidate comes from it.
C24_SharedLedgerAcrossUsers ==
    /\ \A i, j \in DOMAIN candidates :
          SameSenderAndDate(origin[i].message, origin[j].message) => i = j
    /\ \A r \in Runs, u \in AllUsers, v \in AllUsers :
          \A i \in DOMAIN task[r].resume_messages[u],
             j \in DOMAIN task[r].resume_messages[v] :
                SameSenderAndDate(task[r].resume_messages[u][i],
                                  task[r].resume_messages[v][j])
                => u = v /\ i = j
    /\ ( /\ event.call = "sismember"
         /\ ~event.raised
         /\ \E u \in AllUsers \ {event.user} :
               \E i \in DOMAIN task[event.run].resume_messages[u] :
                  SameSenderAndDate(task[event.run].resume_messages[u][i],
                                    event.message) )
       => event.member /\ task[event.run].pc \notin {"sadd", "is_resume"}

\* in one run the message of user 2 is skipped because the message of user 1
\* with the same sender and timestamp was marked and accepted before it
C24_Witness ==
    /\ event.call = "sismember"
    /\ event.member
    /\ event.user = 2
    /\ event.message = 3
    /\ task[event.run].resume_messages[1] = <<1>>
    /\ SameSenderAndDate(1, 3)

\* C25: under any interleaving of the requests to schedule_bot_interview, at
\* most one BotInterviewSession of a Telegram username has the status
\* 'active': two sessions that are active for the same username are one
\* session.
C25_OneActiveSessionPerUsername ==
    \A s, t \in sessions :
        /\ s.telegram_username = t.telegram_username
        /\ s.status = "active"
        /\ t.status = "active"
        => s = t

\* C26: the transcription thread of an upload moves the status of its candidate
\* off 'processing': the step of the thread leaves the row with
\* 'interview_passed' when no step of it raised and with 'failed' when one did.
C26_TaskLeavesProcessing ==
    [][event'.call = "background_transcription_task"
       => \A c \in event'.ids \cap DOMAIN candidates' :
             candidates'[c].status =
                 IF event'.raised THEN "failed" ELSE "interview_passed"]_vars

\* C27: every slot one request of schedule_interviews assigns lies within the
\* 14 days that start the day after the request, whatever the number of the
\* candidates and whichever days have no free slot.
C27_SlotsWithinTwoWeeks ==
    event.call = "schedule_interviews"
    => \A i \in DOMAIN event.slots : event.slots[i].day \in 1..SearchDays

\* C28: send_rejection_emails sets the status 'rejected' only for a candidate
\* whose letter was sent without an error; a candidate whose letter could not
\* be sent keeps its row as it was, and the candidates after it are still
\* mailed and rejected.
C28_RejectedOnlyAfterSend ==
    [][event'.call = "send_rejection_emails"
       => /\ DOMAIN candidates' = DOMAIN candidates
          /\ \A c \in DOMAIN candidates :
                /\ candidates'[c] # candidates[c] => c \in event'.sent
                /\ c \in event'.failed => candidates'[c] = candidates[c]
                /\ c \in event'.sent => candidates'[c].status = "rejected"]_vars

\* one letter of a request could not be sent and another one was
C28_Witness ==
    /\ event.call = "send_rejection_emails"
    /\ event.failed # {}
    /\ event.sent # {}
    /\ \A c \in event.failed : candidates[c].status = "new"
    /\ \A c \in event.sent : candidates[c].status = "rejected"

\* C29: in every reachable state the status of every Candidate is one of
\* STATUS_CHOICES, after any sequence of creations, uploads of recordings,
\* schedulings and rejections.
C29_StatusInChoices ==
    \A c \in DOMAIN candidates : candidates[c].status \in STATUS_CHOICES

\* C30: a view that changes or deletes a Candidate acts only on candidates
\* whose position belongs to a project the requesting user is a member of: a
\* request leaves every row of another user's project as it was.
C30_OnlyOwnCandidates ==
    [][event'.call \in {"candidate_detail", "schedule_interviews",
                        "delete_candidates_mass", "send_rejection_emails",
                        "schedule_bot_interview", "commit"}
       => \A c \in DOMAIN candidates :
             (c \notin DOMAIN candidates' \/ candidates'[c] # candidates[c])
             => Member(event'.user, c)]_vars

====
